---- MODULE Spec2Model ----
(***************************************************************************)
(* A model of the Travelling-Salesman city-tour optimizer:                 *)
(*   distance.py    haversine_distance, calculate_distance_matrix          *)
(*   tsp_solver.py  greedy_solver, optimize_route (2-opt),                 *)
(*                  calculate_route_distance, simulated_annealing          *)
(*   tsp.py         parse_arguments, read_csv, main                        *)
(*                                                                         *)
(* Python lists are modelled as TLA+ sequences.  A Python position k       *)
(* (0-based) is element k+1 of the sequence; the operators below take and  *)
(* return Python positions, so the loops read as in the source.            *)
(* Place indices (the elements of a route) are the Python indices 0..n-1.  *)
(***************************************************************************)
EXTENDS Integers, Sequences, FiniteSets

\* ------------------------------------------------------------------ bounds

\* Largest number of places in a run.
MaxPlaces == 4

\* Places lie on one meridian, at latitudes 0..MaxLat (in degrees).
MaxLat == 2

\* Largest number of cooling steps of an annealing schedule.
MaxCool == 2

\* Largest number of lines in a places file.
MaxLines == 3

VARIABLES
    pc,                 \* position of the running function
    dist_matrix,        \* the distance matrix, dist_matrix[a][b]
    start_idx,          \* greedy_solver's / main's start_idx
    route,              \* greedy_solver's and main's route; an improver's argument
    current,            \* greedy_solver: current
    unvisited,          \* greedy_solver: unvisited
    best_route,         \* optimize_route / simulated_annealing: best_route
    best_distance,      \* optimize_route / simulated_annealing: best_distance
    improved,           \* optimize_route: improved
    i,                  \* optimize_route: loop variable i
    j,                  \* optimize_route: loop variable j
    current_route,      \* simulated_annealing: current_route
    current_distance,   \* simulated_annealing: current_distance
    fixed_points,       \* simulated_annealing: fixed_points
    temperature,        \* simulated_annealing: cooling steps left above temp_end
    result,             \* the value returned
    error,              \* the exception raised ("" when none)
    args,               \* main: the parsed command line
    places,             \* read_csv's / main's places
    optimized_route,    \* main: optimized_route
    calls,              \* main: the solver functions called so far, in order
    geojson,            \* create_geojson: the object written to route.geojson
    file,               \* read_csv: the lines of the file
    fpos,               \* read_csv: the number of lines read so far
    first_line          \* read_csv: first_line

vars == <<pc, dist_matrix, start_idx, route, current, unvisited, best_route,
          best_distance, improved, i, j, current_route, current_distance,
          fixed_points, temperature, result, error, args, places,
          optimized_route, calls, geojson, file, fpos, first_line>>

\* The variables of tsp.py, which the functions of tsp_solver.py never touch.
cli_vars == <<args, places, optimized_route, calls, geojson, file, fpos,
              first_line>>

\* ------------------------------------------------------------ distance.py

\* haversine_distance for two points of the same meridian (lon1 = lon2):
\* dlon = 0, a = sin(dlat/2)^2, c = 2*atan2(sqrt(a), sqrt(1-a)) = |dlat|,
\* so the distance is R*|lat2 - lat1| (radians).  The model's unit of length
\* is R*pi/180 km, one degree of latitude, which makes it |lat2 - lat1|.
haversine_distance(lat1, lon1, lat2, lon2) ==
    IF lat2 >= lat1 THEN lat2 - lat1 ELSE lat1 - lat2

\* Place = namedtuple('Place', ['name', 'lat', 'lon'])
Place(name, lat, lon) == [name |-> name, lat |-> lat, lon |-> lon]

\* The lists of n places: the place of index k is named k and lies at a
\* latitude of 0..MaxLat on the meridian of longitude 0.
PlaceLists(n) ==
    {[k \in 1..n |-> Place(k - 1, lats[k], 0)] : lats \in [1..n -> 0..MaxLat]}

\* calculate_distance_matrix: zero diagonal, each pair a < b computed once
\* and mirrored into [a][b] and [b][a].
calculate_distance_matrix(ps) ==
    LET n == Len(ps)
        d(a, b) == haversine_distance(ps[a+1].lat, ps[a+1].lon,
                                      ps[b+1].lat, ps[b+1].lon)
    IN [a \in 0..(n-1) |->
          [b \in 0..(n-1) |->
              IF a = b THEN 0 ELSE IF a < b THEN d(a, b) ELSE d(b, a)]]

\* The distance matrices of n places.
Matrices(n) == {calculate_distance_matrix(p) : p \in PlaceLists(n)}

\* len(dist_matrix)
MatrixLen(m) == Cardinality(DOMAIN m)

\* ---------------------------------------------------------- tsp_solver.py

\* calculate_route_distance: the sum of dist_matrix[route[k]][route[k+1]]
\* over k in range(len(route) - 1).
RECURSIVE SumLegs(_, _, _)
SumLegs(r, m, k) ==
    IF k >= Len(r) THEN 0 ELSE m[r[k]][r[k+1]] + SumLegs(r, m, k + 1)

calculate_route_distance(r, m) == SumLegs(r, m, 1)

\* A faulty pick: max instead of min, the farthest unvisited place.
NearestBug(m, cur, unv) ==
    CHOOSE a \in unv :
        \A b \in unv : m[cur][a] > m[cur][b] \/ (m[cur][a] = m[cur][b] /\ a <= b)

\* min(unvisited, key=lambda i: dist_matrix[current][i]): min returns the
\* first minimal element in the set's iteration order, and CPython iterates
\* a set of small ints built from range(n) in ascending order.
Nearest(m, cur, unv) ==
    CHOOSE a \in unv :
        \A b \in unv : m[cur][a] < m[cur][b] \/ (m[cur][a] = m[cur][b] /\ a <= b)

\* set(range(n)) with start_idx removed; a KeyError when it is not in the set.
StartInRange(m, s) == s \in 0..(MatrixLen(m) - 1)

\* A faulty append: the place just left instead of the nearest one.
GreedyAppendBug(r, nearest, cur) == Append(r, cur)

\* line 36: route.append(nearest)
GreedyAppend(r, nearest, cur) == Append(r, nearest)

\* ---- greedy_solver, one action per step of its body

GreedyFrame == UNCHANGED <<dist_matrix, start_idx, best_route, best_distance,
                           improved, i, j, current_route, current_distance,
                           fixed_points, temperature, cli_vars>>

\* lines 22-28: a KeyError from unvisited.remove(current), or the first stop.
GreedyEnter ==
    /\ pc = "greedy_call"
    /\ IF StartInRange(dist_matrix, start_idx)
       THEN /\ current' = start_idx
            /\ unvisited' = (0..(MatrixLen(dist_matrix) - 1)) \ {start_idx}
            /\ route' = <<start_idx>>
            /\ pc' = "greedy_loop"
            /\ error' = error
       ELSE /\ pc' = "greedy_raised"
            /\ error' = "KeyError"
            /\ UNCHANGED <<current, unvisited, route>>
    /\ result' = result
    /\ GreedyFrame

\* lines 31-38: one iteration of `while unvisited`.
GreedyStep ==
    /\ pc = "greedy_loop"
    /\ unvisited # {}
    /\ LET nearest == Nearest(dist_matrix, current, unvisited)
       IN /\ route' = GreedyAppend(route, nearest, current)
          /\ unvisited' = unvisited \ {nearest}
          /\ current' = nearest
    /\ UNCHANGED <<pc, result, error>>
    /\ GreedyFrame

\* line 40: return route.
GreedyReturn ==
    /\ pc = "greedy_loop"
    /\ unvisited = {}
    /\ result' = route
    /\ pc' = "greedy_returned"
    /\ UNCHANGED <<route, current, unvisited, error>>
    /\ GreedyFrame

\* greedy_solver as a function of its arguments (for callers): the route
\* built from `r` at `cur` with `unv` still to visit.
RECURSIVE GreedyFrom(_, _, _, _)
GreedyFrom(m, r, cur, unv) ==
    IF unv = {} THEN r
    ELSE LET nearest == Nearest(m, cur, unv)
         IN GreedyFrom(m, GreedyAppend(r, nearest, cur), nearest, unv \ {nearest})

greedy_solver(m, s) ==
    GreedyFrom(m, <<s>>, s, (0..(MatrixLen(m) - 1)) \ {s})

\* tsp.py is not running.
CliIdle ==
    /\ args = [algo |-> "greedy", return_to_start |-> FALSE]
    /\ places = <<>>
    /\ optimized_route = <<>>
    /\ calls = <<>>
    /\ geojson = <<>>
    /\ file = <<>>
    /\ fpos = 0
    /\ first_line = <<>>

\* A call greedy_solver(dist_matrix, start_idx) on the matrix of 0..MaxPlaces
\* places, with any start index from 0 up to one past the last valid one.
InitGreedy ==
    /\ pc = "greedy_call"
    /\ \E n \in 0..MaxPlaces :
          /\ dist_matrix \in Matrices(n)
          /\ start_idx \in 0..n
    /\ route = <<>>
    /\ current = 0
    /\ unvisited = {}
    /\ best_route = <<>>
    /\ best_distance = 0
    /\ improved = FALSE
    /\ i = 0
    /\ j = 0
    /\ current_route = <<>>
    /\ current_distance = 0
    /\ fixed_points = {}
    /\ temperature = 0
    /\ result = <<>>
    /\ error = ""
    /\ CliIdle

NextGreedy == GreedyEnter \/ GreedyStep \/ GreedyReturn

SpecGreedy == InitGreedy /\ [][NextGreedy]_vars

\* ---- optimize_route (2-opt)

\* A faulty first value of i: the scan would start at position 0.
IStartBug(len) == 0

\* range(1, len(best_route) - 2): the first value and the (exclusive) stop.
IStart(len) == 1

IStop(len) == len - 2

\* range(i + 1, len(best_route) - 1): the first value and the (exclusive) stop.
JStart(a) == a + 1

\* A faulty stop of j: the scan would leave out the pairs with j = len - 2.
JStopBug(len) == len - 2

JStop(len) == len - 1

\* A faulty reversal: the slice is filled from the positions one to the left.
TwoOptSwapBug(r, a, b) ==
    [k \in 1..Len(r) |-> IF a + 1 <= k /\ k <= b + 1 THEN r[a + b + 1 - k] ELSE r[k]]

\* new_route = best_route.copy(); new_route[i:j+1] = reversed(new_route[i:j+1])
\* with a, b the Python positions i, j: position p of the slice gets the
\* element of position a + b - p.
TwoOptSwap(r, a, b) ==
    [k \in 1..Len(r) |-> IF a + 1 <= k /\ k <= b + 1 THEN r[a + b + 2 - k] ELSE r[k]]

\* A faulty comparison: a longer candidate is kept.
IsBetterBug(new_distance, best) == new_distance > best

\* A faulty comparison: a candidate of equal length is kept too.
IsBetterOrEqualBug(new_distance, best) == new_distance <= best

\* line 76: if new_distance < best_distance
IsBetter(new_distance, best) == new_distance < best

OptFrame == UNCHANGED <<dist_matrix, start_idx, route, current, unvisited,
                        current_route, current_distance, fixed_points,
                        temperature, cli_vars>>

\* lines 57-58.
OptEnter ==
    /\ pc = "opt_call"
    /\ best_route' = route
    /\ improved' = TRUE
    /\ pc' = "opt_while"
    /\ UNCHANGED <<best_distance, i, j, result, error>>
    /\ OptFrame

\* lines 60-65: `while improved` is entered, a pass starts at the first i.
OptPass ==
    /\ pc = "opt_while"
    /\ improved
    /\ improved' = FALSE
    /\ best_distance' = calculate_route_distance(best_route, dist_matrix)
    /\ i' = IStart(Len(best_route))
    /\ j' = JStart(IStart(Len(best_route)))
    /\ pc' = "opt_scan"
    /\ UNCHANGED <<best_route, result, error>>
    /\ OptFrame

\* lines 66-81: the candidate of the pair (i, j).  A better one is kept and
\* both loops are left (lines 81 and 84-85); otherwise j moves on.
OptTry ==
    /\ pc = "opt_scan"
    /\ i < IStop(Len(best_route))
    /\ j < JStop(Len(best_route))
    /\ LET new_route == TwoOptSwap(best_route, i, j)
           new_distance == calculate_route_distance(new_route, dist_matrix)
       IN IF IsBetter(new_distance, best_distance)
          THEN /\ best_distance' = new_distance
               /\ best_route' = new_route
               /\ improved' = TRUE
               /\ pc' = "opt_while"
               /\ UNCHANGED <<i, j>>
          ELSE /\ j' = j + 1
               /\ UNCHANGED <<best_distance, best_route, improved, pc, i>>
    /\ UNCHANGED <<result, error>>
    /\ OptFrame

\* lines 65-66, 84: the inner loop is exhausted with nothing kept, i moves on.
OptNextI ==
    /\ pc = "opt_scan"
    /\ i < IStop(Len(best_route))
    /\ j >= JStop(Len(best_route))
    /\ i' = i + 1
    /\ j' = JStart(i + 1)
    /\ UNCHANGED <<pc, best_route, best_distance, improved, result, error>>
    /\ OptFrame

\* line 65: the outer loop is exhausted, the pass is complete.
OptPassDone ==
    /\ pc = "opt_scan"
    /\ i >= IStop(Len(best_route))
    /\ pc' = "opt_while"
    /\ UNCHANGED <<i, j, best_route, best_distance, improved, result, error>>
    /\ OptFrame

\* lines 60, 87: `while improved` ends, return best_route.
OptReturn ==
    /\ pc = "opt_while"
    /\ ~improved
    /\ result' = best_route
    /\ pc' = "opt_returned"
    /\ UNCHANGED <<i, j, best_route, best_distance, improved, error>>
    /\ OptFrame

\* optimize_route as a function of its arguments (for callers): the pairs a
\* pass scans, those whose candidate is kept, and the first of them in scan
\* order (i ascending, then j ascending).
ScanPairs(len) ==
    {<<a, b>> \in (0..len) \X (0..len) :
        /\ IStart(len) <= a /\ a < IStop(len)
        /\ JStart(a) <= b /\ b < JStop(len)}

Improving(r, m) ==
    {p \in ScanPairs(Len(r)) :
        IsBetter(calculate_route_distance(TwoOptSwap(r, p[1], p[2]), m),
                 calculate_route_distance(r, m))}

FirstInScan(S) ==
    CHOOSE p \in S : \A q \in S : p[1] < q[1] \/ (p[1] = q[1] /\ p[2] <= q[2])

RECURSIVE optimize_route(_, _)
optimize_route(r, m) ==
    IF Improving(r, m) = {} THEN r
    ELSE LET p == FirstInScan(Improving(r, m))
         IN optimize_route(TwoOptSwap(r, p[1], p[2]), m)

\* ---- simulated_annealing

\* A faulty fixed_points: the ends of a closed route are not fixed.
FixedPointsBug(r) == {}

\* lines 129-132: positions 0 and len(route)-1 when route[0] == route[-1].
FixedPoints(r) == IF r[1] = r[Len(r)] THEN {0, Len(r) - 1} ELSE {}

\* line 143: [i for i in range(len(route)) if i not in fixed_points]
AvailableIndices(r, fixed) == {k \in 0..(Len(r) - 1) : k \notin fixed}

\* line 150: candidate_route[i], candidate_route[j] = candidate_route[j], candidate_route[i]
SwapCities(r, a, b) == [r EXCEPT ![a + 1] = r[b + 1], ![b + 1] = r[a + 1]]

\* line 159: delta < 0 or random.random() < math.exp(-delta / temperature).
\* `below` is the outcome of the comparison of the draw with the exponential.
Accepts(delta, below) == delta < 0 \/ below

\* A faulty update: best_route follows every accepted candidate.
IsNewBestBug(distance, best) == TRUE

\* line 164: if current_distance < best_distance
IsNewBest(distance, best) == distance < best

SaFrame == UNCHANGED <<dist_matrix, start_idx, route, current, unvisited,
                       improved, i, j, cli_vars>>

\* lines 123-135.  route[0] raises IndexError on an empty route.  The
\* schedule temp_start * cooling_rate^k stays above temp_end for a number of
\* steps that the caller's three parameters fix: `temperature` holds how many
\* steps are left, any number up to MaxCool.
SaEnter ==
    /\ pc = "sa_call"
    /\ IF Len(route) = 0
       THEN /\ pc' = "sa_raised"
            /\ error' = "IndexError"
            /\ current_route' = route
            /\ best_route' = route
            /\ current_distance' = calculate_route_distance(route, dist_matrix)
            /\ best_distance' = calculate_route_distance(route, dist_matrix)
            /\ UNCHANGED <<fixed_points, temperature>>
       ELSE /\ current_route' = route
            /\ best_route' = route
            /\ current_distance' = calculate_route_distance(route, dist_matrix)
            /\ best_distance' = calculate_route_distance(route, dist_matrix)
            /\ fixed_points' = FixedPoints(route)
            /\ temperature' \in 0..MaxCool
            /\ pc' = "sa_while"
            /\ error' = error
    /\ result' = result
    /\ SaFrame

\* lines 138-169: one iteration of `while temperature > temp_end` that swaps.
\* The draw of line 159 is below exp(-delta/temperature) whenever delta <= 0
\* (the exponential is then at least 1 and the draw is less than 1);
\* for delta > 0 it may fall on either side.
SaIter ==
    /\ pc = "sa_while"
    /\ temperature > 0
    /\ Cardinality(AvailableIndices(route, fixed_points)) >= 2
    /\ \E a \in AvailableIndices(route, fixed_points),
          b \in AvailableIndices(route, fixed_points),
          below \in BOOLEAN :
          /\ a # b
          /\ LET candidate_route == SwapCities(current_route, a, b)
                 candidate_distance ==
                     calculate_route_distance(candidate_route, dist_matrix)
                 delta == candidate_distance - current_distance
             IN /\ (delta <= 0 => below)
                /\ IF Accepts(delta, below)
                   THEN /\ current_route' = candidate_route
                        /\ current_distance' = candidate_distance
                        /\ IF IsNewBest(candidate_distance, best_distance)
                           THEN /\ best_route' = candidate_route
                                /\ best_distance' = candidate_distance
                           ELSE UNCHANGED <<best_route, best_distance>>
                   ELSE UNCHANGED <<current_route, current_distance,
                                    best_route, best_distance>>
    /\ temperature' = temperature - 1
    /\ UNCHANGED <<pc, fixed_points, result, error>>
    /\ SaFrame

\* lines 144-145, 171: fewer than two positions to swap, break and return.
SaBreak ==
    /\ pc = "sa_while"
    /\ temperature > 0
    /\ Cardinality(AvailableIndices(route, fixed_points)) < 2
    /\ result' = best_route
    /\ pc' = "sa_returned"
    /\ UNCHANGED <<current_route, current_distance, best_route, best_distance,
                   fixed_points, temperature, error>>
    /\ SaFrame

\* lines 138, 171: the temperature is down to temp_end, return best_route.
SaReturn ==
    /\ pc = "sa_while"
    /\ temperature <= 0
    /\ result' = best_route
    /\ pc' = "sa_returned"
    /\ UNCHANGED <<current_route, current_distance, best_route, best_distance,
                   fixed_points, temperature, error>>
    /\ SaFrame

\* ---- the improvers' callers

\* The route 0, 1, ..., n-1.
IdentityRoute(n) == [k \in 1..n |-> k - 1]

\* The routes handed to an improver over n places: the open route through
\* all of them and the closed one that returns to its start (main, lines
\* 201-205).  Neither improver compares place indices, it only looks them up
\* in the matrix, and Matrices(n) holds every renumbering of each of its
\* matrices: a route in another order over a matrix is the route in index
\* order over the renumbered matrix.
InputRoutes(n) ==
    {IdentityRoute(n)} \cup (IF n >= 1 THEN {Append(IdentityRoute(n), 0)} ELSE {})

\* A call optimize_route(route, dist_matrix) or
\* simulated_annealing(route, dist_matrix, ...).
InitImprove ==
    /\ pc \in {"opt_call", "sa_call"}
    /\ \E n \in 0..MaxPlaces :
          /\ dist_matrix \in Matrices(n)
          /\ route \in InputRoutes(n)
    /\ start_idx = 0
    /\ current = 0
    /\ unvisited = {}
    /\ best_route = <<>>
    /\ best_distance = 0
    /\ improved = FALSE
    /\ i = 0
    /\ j = 0
    /\ current_route = <<>>
    /\ current_distance = 0
    /\ fixed_points = {}
    /\ temperature = 0
    /\ result = <<>>
    /\ error = ""
    /\ CliIdle

NextImprove ==
    \/ OptEnter \/ OptPass \/ OptTry \/ OptNextI \/ OptPassDone \/ OptReturn
    \/ SaEnter \/ SaIter \/ SaBreak \/ SaReturn

SpecImprove == InitImprove /\ [][NextImprove]_vars

\* A pass of 2-opt has no random draw to branch on, so its calls are explored
\* over one more place than the annealer's: from five places on, a pair whose
\* reversal is shorter can come after pairs whose reversal is not.
MaxTourPlaces == MaxPlaces + 1

\* A call optimize_route(route, dist_matrix) alone.  The program is a single
\* thread that runs each statement it reaches, which is weak fairness of
\* the function's steps.
InitTwoOpt ==
    /\ pc = "opt_call"
    /\ \E n \in 0..MaxTourPlaces :
          /\ dist_matrix \in Matrices(n)
          /\ route \in InputRoutes(n)
    /\ start_idx = 0
    /\ current = 0
    /\ unvisited = {}
    /\ best_route = <<>>
    /\ best_distance = 0
    /\ improved = FALSE
    /\ i = 0
    /\ j = 0
    /\ current_route = <<>>
    /\ current_distance = 0
    /\ fixed_points = {}
    /\ temperature = 0
    /\ result = <<>>
    /\ error = ""
    /\ CliIdle

NextTwoOpt ==
    OptEnter \/ OptPass \/ OptTry \/ OptNextI \/ OptPassDone \/ OptReturn

SpecTwoOpt == InitTwoOpt /\ [][NextTwoOpt]_vars /\ WF_vars(NextTwoOpt)

\* ----------------------------------------------------------------- tsp.py

\* parse_arguments: --algo has the choices greedy and simulated-annealing,
\* --return is a flag, --start names the starting place (here any of the
\* names 0..MaxPlaces, the last of which no place bears).
Arguments ==
    [algo : {"greedy", "simulated-annealing"},
     return_to_start : BOOLEAN,
     start : 0..MaxPlaces]

\* find_starting_index: the index of the first place of that name, -1 when
\* there is none.
find_starting_index(ps, start_name) ==
    LET hits == {k \in 1..Len(ps) : ps[k].name = start_name}
    IN IF hits = {} THEN -1
       ELSE (CHOOSE k \in hits : \A h \in hits : k <= h) - 1

\* ---- read_csv

\* The fields a line of the file is made of (line.strip().split(',')).
\* Unsigned holds the fields made of digits and dots only, Signed the other
\* fields float() accepts; every other field is a word.
Unsigned == {"75", "48.8", "2.3", "10.7", "41.9"}
Signed == {"-12.0", "-77.0"}

\* The lines of a places file: a header, a row, a row whose name is a
\* number, a row of negative coordinates, a row whose latitude is no
\* number, a row of two fields, and an empty line.
Lines ==
    {<<"Name", "Lat", "Lon">>,
     <<"Paris", "48.8", "2.3">>,
     <<"75", "48.8", "2.3">>,
     <<"Lima", "-12.0", "-77.0">>,
     <<"Oslo", "north", "10.7">>,
     <<"Rome", "41.9">>,
     <<"">>}

\* The files of at most MaxLines lines.
Files == UNION {[1..n -> Lines] : n \in 0..MaxLines}

\* line 63: first_line.replace(',', '').replace('.', '').isdigit(): what is
\* left of the line is not empty and holds digits only.
LooksLikeData(line) ==
    /\ \A k \in 1..Len(line) : line[k] \in Unsigned \cup {""}
    /\ \E k \in 1..Len(line) : line[k] \in Unsigned

\* float(s) succeeds.
FloatParses(s) == s \in Unsigned \cup Signed

\* float(s), in tenths.
Float(s) ==
    CASE s = "75" -> 750
      [] s = "48.8" -> 488
      [] s = "2.3" -> 23
      [] s = "10.7" -> 107
      [] s = "41.9" -> 419
      [] s = "-12.0" -> -120
      [] s = "-77.0" -> -770

\* lines 70-78: the place of a line, appended when the line has three fields
\* and both coordinates parse.
RowLoads(parts) ==
    Len(parts) >= 3 /\ FloatParses(parts[2]) /\ FloatParses(parts[3])

RowPlace(parts) == Place(parts[1], Float(parts[2]), Float(parts[3]))

SolverIdle ==
    UNCHANGED <<dist_matrix, start_idx, route, current, unvisited, best_route,
                best_distance, improved, i, j, current_route,
                current_distance, fixed_points, temperature>>

\* lines 60-66.  readline() returns '' at the end of the file; next(f) on an
\* empty file raises StopIteration, which line 82 turns into sys.exit(1).
CsvHeader ==
    /\ pc = "csv_call"
    /\ first_line' = IF Len(file) = 0 THEN <<"">> ELSE file[1]
    /\ IF LooksLikeData(first_line')
       THEN \* readline() has consumed the first line
            /\ fpos' = 1
            /\ pc' = "csv_loop"
            /\ error' = error
       ELSE IF Len(file) = 0
            THEN /\ fpos' = 0
                 /\ pc' = "csv_exit"
                 /\ error' = "SystemExit"
            ELSE \* f.seek(0), then next(f) consumes the first line
                 /\ fpos' = 0 + 1
                 /\ pc' = "csv_loop"
                 /\ error' = error
    /\ UNCHANGED <<places, result, args, optimized_route, calls, geojson, file>>
    /\ SolverIdle

\* lines 69-78: one iteration of `for line in f`.
CsvLine ==
    /\ pc = "csv_loop"
    /\ fpos < Len(file)
    /\ LET parts == file[fpos + 1]
       IN places' = IF RowLoads(parts) THEN Append(places, RowPlace(parts))
                    ELSE places
    /\ fpos' = fpos + 1
    /\ UNCHANGED <<pc, result, error, args, optimized_route, calls, geojson,
                   file, first_line>>
    /\ SolverIdle

\* lines 86-90: sys.exit(1) when nothing was loaded, else return places.
CsvReturn ==
    /\ pc = "csv_loop"
    /\ fpos >= Len(file)
    /\ IF places = <<>>
       THEN /\ pc' = "csv_exit"
            /\ error' = "SystemExit"
            /\ result' = result
       ELSE /\ pc' = "csv_returned"
            /\ error' = error
            /\ result' = places
    /\ UNCHANGED <<places, args, optimized_route, calls, geojson, file, fpos,
                   first_line>>
    /\ SolverIdle

SolverInit ==
    /\ dist_matrix = <<>>
    /\ start_idx = 0
    /\ route = <<>>
    /\ current = 0
    /\ unvisited = {}
    /\ best_route = <<>>
    /\ best_distance = 0
    /\ improved = FALSE
    /\ i = 0
    /\ j = 0
    /\ current_route = <<>>
    /\ current_distance = 0
    /\ fixed_points = {}
    /\ temperature = 0

\* A call read_csv(filename) on a file of at most MaxLines lines.
InitCsv ==
    /\ pc = "csv_call"
    /\ file \in Files
    /\ fpos = 0
    /\ first_line = <<>>
    /\ places = <<>>
    /\ args = [algo |-> "greedy", return_to_start |-> FALSE]
    /\ optimized_route = <<>>
    /\ calls = <<>>
    /\ geojson = <<>>
    /\ result = <<>>
    /\ error = ""
    /\ SolverInit

NextCsv == CsvHeader \/ CsvLine \/ CsvReturn

SpecCsv == InitCsv /\ [][NextCsv]_vars

\* ---- main

MainFrame == UNCHANGED <<current, unvisited, best_route, best_distance,
                         improved, i, j, current_route, current_distance,
                         fixed_points, temperature, args, places, file, fpos,
                         first_line>>

\* lines 191-195: the start place is looked up, sys.exit(1) when not found.
MainStart ==
    /\ pc = "main_call"
    /\ start_idx' = find_starting_index(places, args.start)
    /\ IF start_idx' = -1
       THEN pc' = "main_exit" /\ error' = "SystemExit"
       ELSE pc' = "main_solve" /\ error' = error
    /\ UNCHANGED <<dist_matrix, route, optimized_route, calls, geojson, result>>
    /\ MainFrame

\* lines 197-205: the matrix, the greedy route, and the return to the start
\* when --return was given.
MainSolve ==
    /\ pc = "main_solve"
    /\ dist_matrix' = calculate_distance_matrix(places)
    /\ LET greedy == greedy_solver(dist_matrix', start_idx)
       IN route' = IF args.return_to_start THEN Append(greedy, start_idx)
                   ELSE greedy
    /\ calls' = Append(calls, "greedy_solver")
    /\ pc' = "main_optimize"
    /\ UNCHANGED <<start_idx, optimized_route, geojson, result, error>>
    /\ MainFrame

\* lines 207-212: 2-opt on a route of more than 3 steps.
MainOptimize ==
    /\ pc = "main_optimize"
    /\ IF Len(route) > 3
       THEN /\ optimized_route' = optimize_route(route, dist_matrix)
            /\ calls' = Append(calls, "optimize_route")
       ELSE /\ optimized_route' = route
            /\ calls' = calls
    /\ pc' = "main_report"
    /\ UNCHANGED <<dist_matrix, start_idx, route, geojson, result, error>>
    /\ MainFrame

\* create_geojson, lines 143-173: the FeatureCollection of a route.  Its
\* first feature is the LineString of the [lon, lat] of each route step; one
\* Point feature follows for each step i, idx of enumerate(route), with the
\* name of place idx and the order i + 1.
LineStringFeature(ps, r) ==
    [type |-> "Feature",
     properties |-> <<>>,
     geometry |-> [type |-> "LineString",
                   coordinates |-> [k \in 1..Len(r) |->
                                       <<ps[r[k] + 1].lon, ps[r[k] + 1].lat>>]]]

PointFeature(ps, idx, order) ==
    [type |-> "Feature",
     properties |-> [name |-> ps[idx + 1].name, order |-> order],
     geometry |-> [type |-> "Point",
                   coordinates |-> <<ps[idx + 1].lon, ps[idx + 1].lat>>]]

create_geojson(ps, r) ==
    [type |-> "FeatureCollection",
     features |-> <<LineStringFeature(ps, r)>>
                  \o [k \in 1..Len(r) |-> PointFeature(ps, r[k], k)]]

\* lines 214-227: the tour is printed and written to route.geojson.
MainReport ==
    /\ pc = "main_report"
    /\ result' = optimized_route
    /\ geojson' = create_geojson(places, optimized_route)
    /\ pc' = "main_done"
    /\ UNCHANGED <<dist_matrix, start_idx, route, optimized_route, calls, error>>
    /\ MainFrame

\* A run of main on the places read_csv returned (at least one) and any
\* command line.
InitMain ==
    /\ pc = "main_call"
    /\ args \in Arguments
    /\ \E n \in 1..MaxPlaces : places \in PlaceLists(n)
    /\ optimized_route = <<>>
    /\ calls = <<>>
    /\ geojson = <<>>
    /\ file = <<>>
    /\ fpos = 0
    /\ first_line = <<>>
    /\ result = <<>>
    /\ error = ""
    /\ SolverInit

NextMain == MainStart \/ MainSolve \/ MainOptimize \/ MainReport

SpecMain == InitMain /\ [][NextMain]_vars

\* ------------------------------------------------------------------ claims

\* The number of positions of route r that hold index v.
Count(r, v) == Cardinality({k \in 1..Len(r) : r[k] = v})

\* r and q hold the same indices the same number of times.
SameMultiset(r, q) ==
    /\ Len(r) = Len(q)
    /\ \A k \in 1..Len(r) : Count(r, r[k]) = Count(q, r[k])

\* route[0] == route[-1] on a route that is not empty.
IsClosed(r) == Len(r) > 0 /\ r[1] = r[Len(r)]

\* C1: the route optimize_route returns is never longer, measured with
\* calculate_route_distance, than the route it was given.
C1_TwoOptNeverLonger ==
    pc = "opt_returned" =>
        calculate_route_distance(result, dist_matrix)
            <= calculate_route_distance(route, dist_matrix)

\* optimize_route has returned a route strictly shorter than its input.
C1_Witness ==
    /\ pc = "opt_returned"
    /\ calculate_route_distance(result, dist_matrix)
           < calculate_route_distance(route, dist_matrix)

\* C2: the route returned by optimize_route or by simulated_annealing has the
\* length of the input and holds each index as many times as the input does
\* (the start index of a closed route twice).
C2_SameMultiset ==
    pc \in {"opt_returned", "sa_returned"} =>
        /\ SameMultiset(result, route)
        /\ IsClosed(route) /\ Len(route) > 2 => Count(result, route[1]) = 2

\* optimize_route has returned a closed route in another order than its input.
C2_Witness ==
    /\ pc = "opt_returned"
    /\ IsClosed(route)
    /\ result # route

\* C3: the route optimize_route returns has the input's index at position 0
\* and the input's index at the last position.
C3_TwoOptFixedEndpoints ==
    pc = "opt_returned" =>
        /\ Len(result) = Len(route)
        /\ Len(route) > 0 =>
              /\ result[1] = route[1]
              /\ result[Len(route)] = route[Len(route)]

\* optimize_route has returned an open route in another order than its input.
C3_Witness ==
    /\ pc = "opt_returned"
    /\ ~IsClosed(route)
    /\ result # route

\* C4: for a matrix over N >= 1 points and a valid start index,
\* greedy_solver raises nothing and returns a route of length N that begins
\* with the start index and holds every index 0..N-1 exactly once.
C4_GreedyPermutation ==
    (MatrixLen(dist_matrix) >= 1 /\ StartInRange(dist_matrix, start_idx)) =>
        /\ pc # "greedy_raised"
        /\ pc = "greedy_returned" =>
              /\ Len(result) = MatrixLen(dist_matrix)
              /\ result[1] = start_idx
              /\ \A v \in 0..(MatrixLen(dist_matrix) - 1) : Count(result, v) = 1

\* greedy_solver has returned the route through MaxPlaces places from a
\* start index other than 0.
C4_Witness ==
    /\ pc = "greedy_returned"
    /\ Len(result) = MaxPlaces
    /\ start_idx # 0

\* C5: the route simulated_annealing returns is never longer than the route
\* it was given, whatever positions were swapped and whatever was accepted.
C5_AnnealNeverLonger ==
    pc = "sa_returned" =>
        calculate_route_distance(result, dist_matrix)
            <= calculate_route_distance(route, dist_matrix)

\* simulated_annealing has returned while its current route, a worse
\* candidate it accepted, is longer than the input.
C5_Witness ==
    /\ pc = "sa_returned"
    /\ current_distance > calculate_route_distance(route, dist_matrix)
    /\ result # current_route

\* C6: on a closed route simulated_annealing never swaps position 0 or the
\* last position, so the current route and the returned route keep the
\* input's start index at both ends; on an open route every position,
\* position 0 included, is available for a swap.
C6_AnnealFixedPoints ==
    /\ (pc \in {"sa_while", "sa_returned"} /\ IsClosed(route)) =>
          /\ AvailableIndices(route, fixed_points)
                 = (0..(Len(route) - 1)) \ {0, Len(route) - 1}
          /\ current_route[1] = route[1]
          /\ current_route[Len(route)] = route[1]
          /\ best_route[1] = route[1]
          /\ best_route[Len(route)] = route[1]
    /\ (pc = "sa_returned" /\ IsClosed(route)) =>
          result[1] = route[1] /\ result[Len(route)] = route[1]
    /\ (pc \in {"sa_while", "sa_returned"} /\ ~IsClosed(route)) =>
          AvailableIndices(route, fixed_points) = 0..(Len(route) - 1)

\* simulated_annealing has returned a closed route in another order than
\* its input.
C6_Witness ==
    /\ pc = "sa_returned"
    /\ IsClosed(route)
    /\ result # route

\* C7: greedy_solver on a 0x0 matrix returns the empty route and raises
\* nothing.
C7_EmptyMatrixEmptyRoute ==
    (MatrixLen(dist_matrix) = 0 /\ pc \in {"greedy_returned", "greedy_raised"}) =>
        (pc = "greedy_returned" /\ result = <<>>)

\* The number of positions of route r that are not fixed: all of them, but
\* the two ends of a closed route.
NonFixedPositions(r) ==
    IF IsClosed(r) THEN Cardinality((0..(Len(r) - 1)) \ {0, Len(r) - 1})
    ELSE Len(r)

\* C8: simulated_annealing on a route of fewer than 2 non-fixed positions
\* (empty, of length 1, closed of length 2 or 3) raises nothing and returns
\* its input.
C8_TooShortReturnsInput ==
    (NonFixedPositions(route) < 2 /\ pc \in {"sa_returned", "sa_raised"}) =>
        (pc = "sa_returned" /\ result = route)

\* The solver functions main has called.
Called == {calls[k] : k \in 1..Len(calls)}

\* C9: main applies simulated_annealing to the route when --algo is
\* simulated-annealing, and does not when it is greedy.
C9_AlgoSelectsImprover ==
    pc = "main_done" =>
        ((args.algo = "simulated-annealing") <=> ("simulated_annealing" \in Called))

\* The rows of file f whose latitude and longitude parse, in file order.
RECURSIVE ParsableRows(_)
ParsableRows(f) ==
    IF f = <<>> THEN <<>>
    ELSE IF RowLoads(Head(f)) THEN <<RowPlace(Head(f))>> \o ParsableRows(Tail(f))
         ELSE ParsableRows(Tail(f))

\* C10: read_csv returns, in file order, exactly the rows whose latitude and
\* longitude parse, the first row of a file without header included.
C10_ReadCsvLoadsEveryRow ==
    pc = "csv_returned" => result = ParsableRows(file)

\* The Point features of a FeatureCollection g.
PointFeatures(g) ==
    SelectSeq(g.features, LAMBDA f : f.geometry.type = "Point")

\* The place indices a route r visits.
Visited(r) == {r[k] : k \in 1..Len(r)}

\* C11: the GeoJSON written for the final route holds one LineString feature
\* with the [lon, lat] of each route step in route order, plus exactly one
\* Point feature per visited place, carrying its name and an order; a closed
\* route over N places gives N Point features.
C11_GeoJsonOnePointPerPlace ==
    pc = "main_done" =>
        /\ Len(SelectSeq(geojson.features,
                         LAMBDA f : f.geometry.type = "LineString")) = 1
        /\ geojson.features[1].geometry.coordinates
               = [k \in 1..Len(result) |->
                     <<places[result[k] + 1].lon, places[result[k] + 1].lat>>]
        /\ Len(PointFeatures(geojson)) = Cardinality(Visited(result))
        /\ \A idx \in Visited(result) :
              Cardinality({k \in 1..Len(PointFeatures(geojson)) :
                  PointFeatures(geojson)[k].properties.name
                      = places[idx + 1].name}) = 1

\* Sequence s in reverse order.
RECURSIVE Rev(_)
Rev(s) == IF s = <<>> THEN <<>> ELSE Append(Rev(Tail(s)), Head(s))

\* Route r with the segment of the Python positions a..b reversed.
Reversal(r, a, b) ==
    SubSeq(r, 1, a) \o Rev(SubSeq(r, a + 1, b + 1)) \o SubSeq(r, b + 2, Len(r))

\* No reversal of a segment a..b, 1 <= a < b <= len(r)-2, makes r shorter.
LocalOptimum(r, m) ==
    \A a \in 1..(Len(r) - 2) : \A b \in (a + 1)..(Len(r) - 2) :
        calculate_route_distance(Reversal(r, a, b), m)
            >= calculate_route_distance(r, m)

\* C12: optimize_route terminates, and the route it returns is a local
\* optimum of the 2-opt neighbourhood: no reversal of a segment route[i..j],
\* 1 <= i < j <= len(route)-2, is strictly shorter.
C12_TwoOptTerminatesAtLocalOptimum ==
    /\ <>(pc = "opt_returned")
    /\ [](pc = "opt_returned" => LocalOptimum(result, dist_matrix))

\* optimize_route has returned, after at least one improvement, a route on
\* which a pass scans several pairs.
C12_Witness ==
    /\ pc = "opt_returned"
    /\ Len(route) >= 5
    /\ result # route
    /\ LocalOptimum(result, dist_matrix)
    /\ ~LocalOptimum(route, dist_matrix)

\* The indices that are not among the first k elements of route r.
NotYetIn(r, k, m) == (0..(MatrixLen(m) - 1)) \ {r[h] : h \in 1..k}

\* C13: every element after the first of the route greedy_solver returns is
\* an index of minimum distance from the element before it among the indices
\* not yet in the route, and among several such indices it is the lowest:
\* the route is a function of the matrix and the start index.
C13_GreedyNearestLowestIndex ==
    pc = "greedy_returned" =>
        \A k \in 2..Len(result) :
            LET prev == result[k - 1]
                cand == NotYetIn(result, k - 1, dist_matrix)
            IN /\ result[k] \in cand
               /\ \A c \in cand :
                     \/ dist_matrix[prev][result[k]] < dist_matrix[prev][c]
                     \/ /\ dist_matrix[prev][result[k]] = dist_matrix[prev][c]
                        /\ result[k] <= c

\* greedy_solver has returned a route on which a pick was made among
\* several equidistant unvisited places, and another pick from places at
\* different distances.
C13_Witness ==
    /\ pc = "greedy_returned"
    /\ \E k \in 2..Len(result) :
          \E c \in NotYetIn(result, k, dist_matrix) :
              dist_matrix[result[k - 1]][c] = dist_matrix[result[k - 1]][result[k]]
    /\ \E k \in 2..Len(result) :
          \E c \in NotYetIn(result, k, dist_matrix) :
              dist_matrix[result[k - 1]][c] > dist_matrix[result[k - 1]][result[k]]

\* (a, b) is a pair of positions a pass scans on route r.
IsScanPair(r, a, b) == 1 <= a /\ a < b /\ b <= Len(r) - 2

\* Reversing the segment a..b of route r gives a strictly shorter route.
Shorter(r, a, b, m) ==
    calculate_route_distance(Reversal(r, a, b), m)
        < calculate_route_distance(r, m)

\* During a pass, no pair scanned before (i, j), in the order i ascending
\* and then j ascending, has a strictly shorter reversal.
NoneShorterBefore ==
    pc = "opt_scan" =>
        \A a \in 1..(Len(best_route) - 2) : \A b \in (a + 1)..(Len(best_route) - 2) :
            (a < i \/ (a = i /\ b < j)) => ~Shorter(best_route, a, b, dist_matrix)

\* A step of optimize_route: a pass starts at the pair (1, 2) on the route as
\* it stands; the pair (i, j) is accepted, and the pass left, exactly when its
\* reversal is strictly shorter, and otherwise the scan moves on to j + 1;
\* best_route changes in no other step.
FirstImprovementStep ==
    /\ (pc = "opt_while" /\ pc' = "opt_scan") =>
          i' = 1 /\ j' = 2 /\ best_route' = best_route
    /\ (pc = "opt_scan" /\ IsScanPair(best_route, i, j)) =>
          IF Shorter(best_route, i, j, dist_matrix)
          THEN /\ best_route' = Reversal(best_route, i, j)
               /\ pc' = "opt_while"
               /\ improved'
          ELSE /\ best_route' = best_route
               /\ pc' = "opt_scan"
               /\ i' = i
               /\ j' = j + 1
    /\ (pc = "opt_scan" /\ ~IsScanPair(best_route, i, j)) =>
          /\ best_route' = best_route
          /\ \/ pc' = "opt_while" /\ ~improved'
             \/ pc' = "opt_scan" /\ i' = i + 1 /\ j' = i + 2
    /\ pc \in {"opt_while", "opt_returned"} => best_route' = best_route

\* C14: 2-opt is first-improvement with restart: a pass scans the pairs with
\* i ascending and, for each i, j ascending; the first pair whose reversal is
\* strictly shorter than the current best is accepted, the rest of the pass
\* is abandoned and a new pass starts from i = 1 on the updated route; a
\* candidate of equal length is never accepted.
C14_FirstImprovementWithRestart ==
    /\ []NoneShorterBefore
    /\ [][FirstImprovementStep]_vars

\* A pair other than the first of the pass has just been accepted, after
\* an earlier pair of the same pass whose reversal is as long as the route was.
C14_Witness ==
    /\ pc = "opt_while"
    /\ improved
    /\ IsScanPair(best_route, i, j)
    /\ <<i, j>> # <<1, 2>>
    /\ best_route = Reversal(route, i, j)
    /\ best_route # route
    /\ calculate_route_distance(Reversal(Reversal(best_route, i, j), 1, 2), dist_matrix)
           = calculate_route_distance(Reversal(best_route, i, j), dist_matrix)

====
